---- MODULE Spec2Model ----
(***************************************************************************)
(* Model of scripts/chroma-cli.py, the Chroma inspection command line of   *)
(* jikime-mem.  One process run is one step: main() dispatches on argv and *)
(* the chosen handler runs to its end (normal return, sys.exit, or an      *)
(* exception nobody catches, which ends the interpreter with status 1).    *)
(*                                                                         *)
(* Representation.  Python strings that the code slices or measures        *)
(* (document content, session ids, the n argument) are tuples of           *)
(* one-character strings; strings that are only compared (command names,   *)
(* doc_type values, collection names) are TLA+ strings.  A distance is an  *)
(* integer number of 1/Scale units.  Every print() call is one record      *)
(* appended to out.  The vector store is an external library: its calls    *)
(* return what the store holds, or raise; where the library's answer is    *)
(* not fixed by this repository (a non-positive limit, the ranking of a    *)
(* query) every answer is allowed.                                         *)
(***************************************************************************)
EXTENDS Integers, Sequences, FiniteSets, TLC

VARIABLES store, pc, argv, env, out, exitCode, raised, opened, calls, result,
          tally, fnIn, fnOut

vars == <<store, pc, argv, env, out, exitCode, raised, opened, calls, result,
          tally, fnIn, fnOut>>

(* ------------------------------ bounds -------------------------------- *)
MaxDocs == 3
Scale == 5000
MaxGap == 4
MaxDocLen == 102

(* ------------------------- program constants -------------------------- *)
COLLECTION_NAME == "jm__jikime_mem"
OtherName == "other_collection"
DefaultLimit == 10
ListPreviewLimit == 80
SearchPreviewLimit == 100
SessionListLen == 8
SessionShortLen == 12
TopSessions == 5

(* ------------------------------ helpers ------------------------------- *)
Min(a, b) == IF a < b THEN a ELSE b
Max(a, b) == IF a > b THEN a ELSE b

\* s[:n] for n >= 0
Take(s, n) == SubSeq(s, 1, Min(n, Len(s)))

\* s.replace('\n', ' ')
ReplaceNewlines(s) == [i \in 1..Len(s) |-> IF s[i] = "\n" THEN " " ELSE s[i]]

Ellipsis == <<".", ".", ".">>
Unknown == <<"u", "n", "k", "n", "o", "w", "n">>

\* meta.get(key, default)
MetaGet(meta, key, default) == IF key \in DOMAIN meta THEN meta[key] ELSE default

\* "📝" if doc_type == 'prompt' else "💬" if doc_type == 'response' else "📄"
Emoji(doc_type) ==
    IF doc_type = "prompt" THEN "memo"
    ELSE IF doc_type = "response" THEN "speech" ELSE "page"

\* variant: >= in place of > in the length test
PreviewOf_Ge(doc, limit) ==
    LET preview == ReplaceNewlines(Take(doc, limit))
    IN  IF Len(doc) >= limit THEN preview \o Ellipsis ELSE preview

\* preview = doc[:limit].replace('\n', ' '); if len(doc) > limit: preview += "..."
PreviewOf(doc, limit) ==
    LET preview == ReplaceNewlines(Take(doc, limit))
    IN  IF Len(doc) > limit THEN preview \o Ellipsis ELSE preview

ListPreview(doc) == PreviewOf(doc, ListPreviewLimit)
SearchPreview(doc) == PreviewOf(doc, SearchPreviewLimit)

\* variant: no max(0, ...) clamp
SimilarityNum_NoClamp(dist) == (2 * Scale - dist) * 1000

\* similarity = max(0, 1 - (dist / 2)) * 100, as an exact fraction num/den of
\* tenths of a percent
SimilarityNum(dist) == Max(0, 2 * Scale - dist) * 1000
SimilarityDen == 2 * Scale

\* f"{similarity:.1f}": the tenths nearest to the value.  The value is a
\* binary float, so a decimal tie falls to whichever side the float lies on.
Format1f(num, den, tieUp) ==
    LET q == num \div den
        r == num % den
    IN  IF 2 * r < den THEN q
        ELSE IF 2 * r > den THEN q + 1
        ELSE IF tieUp THEN q + 1 ELSE q

SimilarityText(dist, tieUp) == Format1f(SimilarityNum(dist), SimilarityDen, tieUp)

\* int(s): optional sign, then decimal digits
Digits == <<"0", "1", "2", "3", "4", "5", "6", "7", "8", "9">>
IsDigit(c) == \E i \in 1..10 : Digits[i] = c
DigitVal(c) == (CHOOSE i \in 1..10 : Digits[i] = c) - 1
RECURSIVE DigitsVal(_)
DigitsVal(s) ==
    IF s = <<>> THEN 0
    ELSE 10 * DigitsVal(SubSeq(s, 1, Len(s) - 1)) + DigitVal(s[Len(s)])
AllDigits(s) == Len(s) > 0 /\ \A i \in 1..Len(s) : IsDigit(s[i])
IntOk(s) ==
    /\ Len(s) > 0
    /\ IF s[1] \in {"-", "+"} THEN AllDigits(Tail(s)) ELSE AllDigits(s)
IntVal(s) ==
    IF s[1] = "-" THEN 0 - DigitsVal(Tail(s))
    ELSE IF s[1] = "+" THEN DigitsVal(Tail(s)) ELSE DigitsVal(s)

(* ------------------------- the vector store --------------------------- *)
\* A document's text: len characters, a newline at position nl (0: none)
Letters == <<"a", "b", "c">>
MkContent(len, nl) ==
    [i \in 1..len |-> IF i = nl THEN "\n" ELSE Letters[(i % 3) + 1]]

LongSession == <<"s", "e", "s", "s", "-", "0", "1", "2", "3", "4", "5", "6", "7", "8">>
ShortSession == <<"s", "1">>
NoMeta == [k \in {} |-> ""]

\* the documents a collection may hold: [doc: content, meta: metadata mapping]
DocKinds ==
    << [doc  |-> MkContent(4, 2),
        meta |-> [doc_type |-> "prompt", session_id |-> LongSession]],
       [doc  |-> MkContent(SearchPreviewLimit + 1, ListPreviewLimit),
        meta |-> [doc_type |-> "response", session_id |-> ShortSession]],
       [doc  |-> MkContent(ListPreviewLimit + 1, 0),
        meta |-> NoMeta] >>

RECURSIVE DocSeqs(_)
DocSeqs(n) ==
    IF n = 0 THEN {<<>>}
    ELSE LET shorter == DocSeqs(n - 1)
         IN  shorter \cup {Append(s, DocKinds[k]) :
                              s \in {t \in shorter : Len(t) = n - 1},
                              k \in 1..Len(DocKinds)}

\* a store: its collections in listing order, each [name, docs]
Stores ==
    LET other == [name |-> OtherName, docs |-> <<DocKinds[1]>>]
        mine(d) == [name |-> COLLECTION_NAME, docs |-> d]
    IN  {<<>>, <<other>>}
        \cup {<<mine(d)>> : d \in DocSeqs(MaxDocs)}
        \cup {<<mine(d), other>> : d \in DocSeqs(1)}
        \cup {<<other, mine(d)>> : d \in DocSeqs(1)}

HasCollection(st, name) == \E i \in 1..Len(st) : st[i].name = name
DocsOf(st, name) == st[CHOOSE i \in 1..Len(st) : st[i].name = name].docs

\* the calls of the client API that only read
ReadOps == {"list_collections", "get_collection", "count", "peek", "query", "get"}

\* what a call leaves of the store: the reading calls leave it as it is;
\* get_or_create_collection adds the collection when it is missing and
\* delete_collection removes it
Effect(st, op) ==
    IF op = "get_or_create_collection" /\ ~HasCollection(st, COLLECTION_NAME)
    THEN Append(st, [name |-> COLLECTION_NAME, docs |-> <<>>])
    ELSE IF op = "delete_collection"
    THEN SelectSeq(st, LAMBDA c : c.name # COLLECTION_NAME)
    ELSE st
RECURSIVE StoreAfter(_, _)
StoreAfter(st, cl) ==
    IF cl = <<>> THEN st ELSE StoreAfter(Effect(st, Head(cl)), Tail(cl))

\* the record the store returns for the i-th document of a collection
Entry(docs, i) == [id |-> i, doc |-> docs[i].doc, meta |-> docs[i].meta]

\* collection.peek(limit): the first min(limit, count) documents; what the
\* library returns for a limit below 1 is not fixed here (pick documents)
PeekSize(docs, limit, pick) ==
    IF limit >= 1 THEN Min(limit, Len(docs)) ELSE Min(pick, Len(docs))
Peek(docs, limit, pick) == [i \in 1..PeekSize(docs, limit, pick) |-> Entry(docs, i)]

\* collection.get(include=['metadatas']): every document
GetAll(docs) == [i \in 1..Len(docs) |-> [id |-> i, meta |-> docs[i].meta]]

\* collection.query(query_texts=[q], n_results=limit): at most
\* min(limit, count) documents (pick of them), nearest first, each with its
\* distance ds[i]; rev is the ranking the query text induces
Dists == {0, Scale, 2 * Scale + Scale \div 2}
SortedDists(k) ==
    {s \in [1..k -> Dists] : \A i \in 1..(k - 1) : s[i] <= s[i + 1]}
QuerySize(docs, limit, pick) ==
    IF limit >= 1 THEN Min(pick, Min(limit, Len(docs))) ELSE 0
Query(docs, limit, pick, rev, ds) ==
    [i \in 1..QuerySize(docs, limit, pick) |->
        LET j == IF rev THEN Len(docs) + 1 - i ELSE i
        IN  [id |-> j, doc |-> docs[j].doc, meta |-> docs[j].meta, dist |-> ds[i]]]

(* --------------------------- the handlers ----------------------------- *)
\* what one process run leaves behind
Run(o, code, exc, op, cl, res, tl) ==
    [out |-> o, exitCode |-> code, raised |-> exc, opened |-> op,
     calls |-> cl, result |-> res, tally |-> tl]

NoTally == [types |-> <<>>, sessions |-> <<>>]

\* variant: every exception is caught, printed as "(error)", and the run goes
\* on to a normal end
Uncaught_Swallowed(o, exc, op, cl) ==
    Run(o \o <<[kind |-> "col_error", name |-> exc]>>, 0, "none", op, cl, <<>>, NoTally)
\* an exception nobody catches: traceback, interpreter exits with status 1
Uncaught(o, exc, op, cl) == Run(o, 1, exc, op, cl, <<>>, NoTally)

Rule == [kind |-> "rule"]
Title(t) == [kind |-> "title", text |-> t]
UsageDoc == [kind |-> "usage_doc"]

\* get_collection(client) when client.get_collection raises
NotFoundLines ==
    << [kind |-> "not_found", name |-> COLLECTION_NAME],
       [kind |-> "error_detail"] >>
\* variant: the collection is created when it is missing
GetCollectionCall_Create == <<"get_or_create_collection">>
\* the call get_collection(client) issues
GetCollectionCall == <<"get_collection">>
\* variant: sys.exit(0) after the not-found message
NotFoundExit_Zero(o) ==
    Run(o \o NotFoundLines, 0, "none", TRUE, GetCollectionCall, <<>>, NoTally)
NotFoundExit(o) ==
    Run(o \o NotFoundLines, 1, "none", TRUE, GetCollectionCall, <<>>, NoTally)

\* get_client() when chromadb.PersistentClient raises
ClientRaises(o) == Uncaught(o, "PersistentClient", TRUE, <<>>)

\* client.get_collection(COLLECTION_NAME) raises
GetCollectionRaises(st, getFail) ==
    ~HasCollection(st, COLLECTION_NAME) \/ getFail

RECURSIVE Flatten(_)
Flatten(ss) == IF ss = <<>> THEN <<>> ELSE Head(ss) \o Flatten(Tail(ss))

\* cmd_status: one line per listed collection
\* variant: a failed collection is shown with a count of 0
StatusLine_ZeroOnError(col, fault) ==
    [kind |-> "col_count", name |-> col.name,
     count |-> IF fault = "ok" THEN Len(col.docs) ELSE 0]
StatusLine(col, fault) ==
    IF fault = "ok"
    THEN [kind |-> "col_count", name |-> col.name, count |-> Len(col.docs)]
    ELSE [kind |-> "col_error", name |-> col.name]
StatusCalls(fault) ==
    IF fault = "get" THEN <<"get_collection">> ELSE <<"get_collection", "count">>
StatusHead == <<Rule, Title("status"), Rule, [kind |-> "data_dir"]>>
cmd_status(st, e) ==
    IF e.fail = "client" THEN ClientRaises(<<>>)
    ELSE IF e.fail = "list_collections"
    THEN Uncaught(StatusHead, "list_collections", TRUE, <<"list_collections">>)
    ELSE Run(StatusHead
               \o <<[kind |-> "collections", n |-> Len(st)]>>
               \o [i \in 1..Len(st) |-> StatusLine(st[i], e.faults[i])],
             0, "none", TRUE,
             <<"list_collections">>
               \o Flatten([i \in 1..Len(st) |-> StatusCalls(e.faults[i])]),
             <<>>, NoTally)

\* cmd_list: the three prints of the loop body for the i-th peeked record
ListEntry(r, i) ==
    LET doc_type == MetaGet(r.meta, "doc_type", "unknown")
        session_id == Take(MetaGet(r.meta, "session_id", Unknown), SessionListLen)
    IN  << [kind |-> "doc_head", emoji |-> Emoji(doc_type), index |-> i, id |-> r.id],
           [kind |-> "doc_type", doc_type |-> doc_type, session |-> session_id],
           [kind |-> "doc_content", preview |-> ListPreview(r.doc)] >>
\* variant: the requested limit is not capped by the count
ListLimit_NoMin(limit, count) == limit
ListLimit(limit, count) == Min(limit, count)
cmd_list(st, n, e) ==
    IF e.fail = "client" THEN ClientRaises(<<>>)
    ELSE IF GetCollectionRaises(st, e.fail = "get_collection")
    THEN NotFoundExit(<<>>)
    ELSE IF e.fail = "count"
    THEN Uncaught(<<>>, "count", TRUE, GetCollectionCall \o <<"count">>)
    ELSE
      LET docs == DocsOf(st, COLLECTION_NAME)
          count == Len(docs)
          limit == ListLimit(n, count)
          head == <<Rule, [kind |-> "list_title", limit |-> limit, count |-> count],
                    Rule>>
      IN  IF count = 0
          THEN Run(head \o <<[kind |-> "no_documents"]>>, 0, "none", TRUE,
                   GetCollectionCall \o <<"count">>, <<>>, NoTally)
          ELSE IF e.fail = "peek"
          THEN Uncaught(head, "peek", TRUE, GetCollectionCall \o <<"count", "peek">>)
          ELSE LET res == Peek(docs, limit, e.pick)
               IN  Run(head \o Flatten([i \in 1..Len(res) |-> ListEntry(res[i], i)]),
                       0, "none", TRUE, GetCollectionCall \o <<"count", "peek">>,
                       res, NoTally)

\* cmd_search: the four prints of the loop body for the i-th result
SearchEntry(r, i, tieUp) ==
    LET doc_type == MetaGet(r.meta, "doc_type", "unknown")
    IN  << [kind |-> "match", emoji |-> Emoji(doc_type), index |-> i,
            similarity |-> SimilarityText(r.dist, tieUp)],
           [kind |-> "match_id", id |-> r.id],
           [kind |-> "match_type", doc_type |-> doc_type],
           [kind |-> "match_content", preview |-> SearchPreview(r.doc)] >>
\* variant: the empty-result test is missing
NoResults_Never(res) == FALSE
NoResults(res) == res = <<>>
cmd_search(st, query, n, e) ==
    IF e.fail = "client" THEN ClientRaises(<<>>)
    ELSE IF GetCollectionRaises(st, e.fail = "get_collection")
    THEN NotFoundExit(<<>>)
    ELSE
      LET docs == DocsOf(st, COLLECTION_NAME)
          head == <<Rule, [kind |-> "search_title", query |-> query], Rule>>
          cl   == GetCollectionCall \o <<"query">>
      IN  IF e.fail = "query"
          THEN Uncaught(head, "query", TRUE, cl)
          ELSE LET res == Query(docs, n, e.pick, e.rev, e.ds)
               IN  IF NoResults(res)
                   THEN Run(head \o <<[kind |-> "no_results"]>>, 0, "none", TRUE,
                            cl, res, NoTally)
                   ELSE Run(head \o Flatten([i \in 1..Len(res) |->
                                               SearchEntry(res[i], i, e.ties[i])]),
                            0, "none", TRUE, cl, res, NoTally)

\* collections.Counter: (key, n) pairs in order of first insertion
CounterHas(c, key) == \E i \in 1..Len(c) : c[i].key = key
\* variant: = 1 in place of += 1
CounterAdd_Reset(c, key) ==
    IF CounterHas(c, key)
    THEN [i \in 1..Len(c) |-> IF c[i].key = key THEN [key |-> key, n |-> 1] ELSE c[i]]
    ELSE Append(c, [key |-> key, n |-> 1])
CounterAdd(c, key) ==
    IF CounterHas(c, key)
    THEN [i \in 1..Len(c) |-> IF c[i].key = key
                              THEN [key |-> key, n |-> c[i].n + 1] ELSE c[i]]
    ELSE Append(c, [key |-> key, n |-> 1])
RECURSIVE CounterSum(_)
CounterSum(c) == IF c = <<>> THEN 0 ELSE Head(c).n + CounterSum(Tail(c))
\* Counter.most_common(): by count, largest first; equal counts keep
\* insertion order
RECURSIVE MostCommon(_)
MostCommon(c) ==
    IF c = <<>> THEN <<>>
    ELSE LET top == CHOOSE i \in 1..Len(c) :
                      /\ \A j \in 1..Len(c) : c[j].n <= c[i].n
                      /\ \A j \in 1..(i - 1) : c[j].n < c[i].n
         IN  <<c[top]>> \o MostCommon(SubSeq(c, 1, top - 1) \o SubSeq(c, top + 1, Len(c)))

\* the loop of cmd_types over result['metadatas']
TypeKey(meta) == MetaGet(meta, "doc_type", "unknown")
SessionKey(meta) == MetaGet(meta, "session_id", Unknown)
RECURSIVE TallyTypes(_)
TallyTypes(res) ==
    IF res = <<>> THEN <<>>
    ELSE CounterAdd(TallyTypes(SubSeq(res, 1, Len(res) - 1)), TypeKey(res[Len(res)].meta))
RECURSIVE TallySessions(_)
TallySessions(res) ==
    IF res = <<>> THEN <<>>
    ELSE CounterAdd(TallySessions(SubSeq(res, 1, Len(res) - 1)),
                    SessionKey(res[Len(res)].meta))

\* short_id = session_id[:12] + "..." if len(session_id) > 12 else session_id
ShortId(session_id) ==
    IF Len(session_id) > SessionShortLen
    THEN Take(session_id, SessionShortLen) \o Ellipsis ELSE session_id

TypeLine(p) == [kind |-> "type_count", emoji |-> Emoji(p.key), doc_type |-> p.key, cnt |-> p.n]
SessionLine(p) == [kind |-> "session_count", short_id |-> ShortId(p.key), cnt |-> p.n]
cmd_types(st, e) ==
    IF e.fail = "client" THEN ClientRaises(<<>>)
    ELSE IF GetCollectionRaises(st, e.fail = "get_collection")
    THEN NotFoundExit(<<>>)
    ELSE IF e.fail = "count"
    THEN Uncaught(<<>>, "count", TRUE, GetCollectionCall \o <<"count">>)
    ELSE
      LET docs == DocsOf(st, COLLECTION_NAME)
          count == Len(docs)
          head == <<Rule, Title("types"), Rule>>
      IN  IF count = 0
          THEN Run(head \o <<[kind |-> "no_documents"]>>, 0, "none", TRUE,
                   GetCollectionCall \o <<"count">>, <<>>, NoTally)
          ELSE IF e.fail = "get"
          THEN Uncaught(head, "get", TRUE, GetCollectionCall \o <<"count", "get">>)
          ELSE LET res == GetAll(docs)
                   type_counts == TallyTypes(res)
                   session_counts == TallySessions(res)
                   byType == MostCommon(type_counts)
                   bySession == Take(MostCommon(session_counts), TopSessions)
               IN  Run(head
                         \o <<[kind |-> "by_type", total |-> count]>>
                         \o [i \in 1..Len(byType) |-> TypeLine(byType[i])]
                         \o <<[kind |-> "by_session"]>>
                         \o [i \in 1..Len(bySession) |-> SessionLine(bySession[i])],
                       0, "none", TRUE, GetCollectionCall \o <<"count", "get">>, res,
                       [types |-> type_counts, sessions |-> session_counts])

(* ------------------------------- main --------------------------------- *)
Prog == "chroma-cli.py"

UsageExit == Run(<<UsageDoc>>, 0, "none", FALSE, <<>>, <<>>, NoTally)
\* variant: sys.exit(0) after the usage message of search
SearchUsageExit_Zero ==
    Run(<<[kind |-> "search_usage"]>>, 0, "none", FALSE, <<>>, <<>>, NoTally)
SearchUsageExit ==
    Run(<<[kind |-> "search_usage"]>>, 1, "none", FALSE, <<>>, <<>>, NoTally)
UnknownExit(cmd) ==
    Run(<<[kind |-> "unknown_command", cmd |-> cmd], UsageDoc>>, 1, "none", FALSE,
        <<>>, <<>>, NoTally)
\* int(sys.argv[i]) raises ValueError
BadIntExit == Uncaught(<<>>, "ValueError", FALSE, <<>>)

\* main(): sys.argv is av, av[1] the script name
Main(st, av, e) ==
    IF Len(av) < 2
    THEN UsageExit
    ELSE
      LET cmd == av[2]
      IN  IF cmd = "status" THEN cmd_status(st, e)
          ELSE IF cmd = "list"
          THEN IF Len(av) > 2 /\ ~IntOk(av[3])
               THEN BadIntExit
               ELSE cmd_list(st, IF Len(av) > 2 THEN IntVal(av[3]) ELSE DefaultLimit, e)
          ELSE IF cmd = "search"
          THEN IF Len(av) < 3
               THEN SearchUsageExit
               ELSE IF Len(av) > 3 /\ ~IntOk(av[4])
               THEN BadIntExit
               ELSE cmd_search(st, av[3],
                               IF Len(av) > 3 THEN IntVal(av[4]) ELSE DefaultLimit, e)
          ELSE IF cmd = "types" THEN cmd_types(st, e)
          ELSE UnknownExit(cmd)

(* ---------------------------- environment ----------------------------- *)
\* what the store library does during one run: which calls raise, and the
\* answers this repository does not determine
Calm ==
    [fail |-> "none", faults |-> [i \in 1..2 |-> "ok"], pick |-> 0, rev |-> FALSE,
     ds |-> <<>>, ties |-> <<>>]

IsTie(dist) == 2 * (SimilarityNum(dist) % SimilarityDen) = SimilarityDen
TieChoices(dist) == IF IsTie(dist) THEN BOOLEAN ELSE {FALSE}
TieFns(ds) == {t \in [1..Len(ds) -> BOOLEAN] : \A i \in 1..Len(ds) : t[i] \in TieChoices(ds[i])}

\* the n argument as typed
NTokens == {<<"-", "1">>, <<"0">>, <<"1">>, <<"2">>, <<"1", "2">>, <<"x">>}
Hello == <<"h", "e", "l", "l", "o">>

StatusArgvs == {<<Prog, "status">>}
ListArgvs == {<<Prog, "list">>} \cup {<<Prog, "list", t>> : t \in NTokens}
SearchArgvs ==
    {<<Prog, "search">>, <<Prog, "search", Hello>>}
    \cup {<<Prog, "search", Hello, t>> : t \in NTokens}
TypesArgvs == {<<Prog, "types">>}
UnknownArgvs == {<<Prog, "bogus">>}

(* ------------------------------ actions ------------------------------- *)
Init ==
    /\ store \in Stores
    /\ pc = "start"
    /\ argv = <<>>
    /\ env = Calm
    /\ out = <<>>
    /\ exitCode = 0
    /\ raised = "none"
    /\ opened = FALSE
    /\ calls = <<>>
    /\ result = <<>>
    /\ tally = NoTally
    /\ fnIn = [fn |-> "none"]
    /\ fnOut = [fn |-> "none"]

\* the process runs main() on av, with the store client behaving as e, and ends
Finish(av, e) ==
    LET r == Main(store, av, e) IN
    /\ pc' = "done"
    /\ argv' = av
    /\ env' = e
    /\ out' = r.out
    /\ exitCode' = r.exitCode
    /\ raised' = r.raised
    /\ opened' = r.opened
    /\ calls' = r.calls
    /\ result' = r.result
    /\ tally' = r.tally
    /\ store' = StoreAfter(store, r.calls)

RunNoArgs ==
    /\ pc = "start"
    /\ Finish(<<Prog>>, Calm)
    /\ UNCHANGED <<fnIn, fnOut>>

RunUnknown ==
    /\ pc = "start"
    /\ \E av \in UnknownArgvs : Finish(av, Calm)
    /\ UNCHANGED <<fnIn, fnOut>>

RunStatus ==
    /\ pc = "start"
    /\ \E av \in StatusArgvs :
       \E f \in {"none", "client", "list_collections"} :
       \E fs \in IF f = "none" THEN [1..2 -> {"ok", "get", "count"}] ELSE {Calm.faults} :
           Finish(av, [Calm EXCEPT !.fail = f, !.faults = fs])
    /\ UNCHANGED <<fnIn, fnOut>>

RunList ==
    /\ pc = "start"
    /\ \E av \in ListArgvs :
       \E f \in {"none", "client", "get_collection", "count", "peek"} :
       \E k \in IF f = "none" THEN 0..MaxDocs ELSE {0} :
           Finish(av, [Calm EXCEPT !.fail = f, !.pick = k])
    /\ UNCHANGED <<fnIn, fnOut>>

RunSearch ==
    /\ pc = "start"
    /\ \E av \in SearchArgvs :
       \E f \in {"none", "client", "get_collection", "query"} :
       \E k \in IF f = "none" THEN 0..MaxDocs ELSE {0} :
       \E rv \in IF k = 0 THEN {FALSE} ELSE BOOLEAN, ds \in SortedDists(k) :
       \E ts \in TieFns(ds) :
           Finish(av, [Calm EXCEPT !.fail = f, !.pick = k, !.rev = rv, !.ds = ds,
                                   !.ties = ts])
    /\ UNCHANGED <<fnIn, fnOut>>

RunTypes ==
    /\ pc = "start"
    /\ \E av \in TypesArgvs :
       \E f \in {"none", "client", "get_collection", "count", "get"} :
           Finish(av, [Calm EXCEPT !.fail = f])
    /\ UNCHANGED <<fnIn, fnOut>>

\* the next invocation is a fresh process over the same store
NewProcess ==
    /\ pc = "done"
    /\ pc' = "start"
    /\ argv' = <<>>
    /\ env' = Calm
    /\ out' = <<>>
    /\ exitCode' = 0
    /\ raised' = "none"
    /\ opened' = FALSE
    /\ calls' = <<>>
    /\ result' = <<>>
    /\ tally' = NoTally
    /\ UNCHANGED <<store, fnIn, fnOut>>

Next ==
    \/ RunNoArgs
    \/ RunUnknown
    \/ RunStatus
    \/ RunList
    \/ RunSearch
    \/ RunTypes
    \/ NewProcess

Spec == Init /\ [][Next]_vars

(* ------------- the pure conversions, applied to drawn inputs ---------- *)
Idle ==
    /\ store = <<>>
    /\ pc = "fn"
    /\ argv = <<>>
    /\ env = Calm
    /\ out = <<>>
    /\ exitCode = 0
    /\ raised = "none"
    /\ opened = FALSE
    /\ calls = <<>>
    /\ result = <<>>
    /\ tally = NoTally

IdleUnchanged ==
    UNCHANGED <<store, pc, argv, env, out, exitCode, raised, opened, calls, result,
                tally, fnIn>>

\* every content of up to MaxDocLen characters with at most one newline
InitPreview ==
    /\ Idle
    /\ fnIn \in {[fn |-> "preview", doc |-> MkContent(len, nl)] :
                    len \in 0..MaxDocLen, nl \in 0..MaxDocLen}
    /\ fnOut = [fn |-> "none"]

PreviewList ==
    /\ fnIn.fn = "preview" /\ fnOut.fn = "none"
    /\ fnOut' = [fn |-> "list", limit |-> ListPreviewLimit,
                 preview |-> ListPreview(fnIn.doc)]
    /\ IdleUnchanged

PreviewSearch ==
    /\ fnIn.fn = "preview" /\ fnOut.fn = "none"
    /\ fnOut' = [fn |-> "search", limit |-> SearchPreviewLimit,
                 preview |-> SearchPreview(fnIn.doc)]
    /\ IdleUnchanged

NextPreview == PreviewList \/ PreviewSearch

SpecPreview == InitPreview /\ [][NextPreview]_vars

\* pairs of distances d1 < d2, in 1/Scale units, up to a little over 2
MaxDist == 2 * Scale + Scale \div 10
Gaps == (1..MaxGap) \cup {Scale \div 250, Scale \div 2, Scale}
InitSim ==
    /\ Idle
    /\ fnIn \in {[fn |-> "similarity", d1 |-> d, d2 |-> d + g] :
                    d \in 0..MaxDist, g \in Gaps}
    /\ fnOut = [fn |-> "none"]

SimApply ==
    /\ fnIn.fn = "similarity" /\ fnOut.fn = "none"
    /\ \E t1 \in TieChoices(fnIn.d1), t2 \in TieChoices(fnIn.d2) :
           fnOut' = [fn |-> "similarity",
                     p1 |-> SimilarityText(fnIn.d1, t1),
                     p2 |-> SimilarityText(fnIn.d2, t2)]
    /\ IdleUnchanged

NextSim == SimApply

SpecSim == InitSim /\ [][NextSim]_vars

(* ============================ properties ============================== *)
Cmd == IF Len(argv) >= 2 THEN argv[2] ELSE "none"
Done == pc = "done"
HasKind(k) == \E i \in 1..Len(out) : out[i].kind = k
Lines(k) == SelectSeq(out, LAMBDA l : l.kind = k)
Absent == ~HasCollection(store, COLLECTION_NAME)
Present == HasCollection(store, COLLECTION_NAME)
Stored == IF Present THEN DocsOf(store, COLLECTION_NAME) ELSE <<>>
\* the position of the n argument on the command line, per command
NPos == IF Cmd = "search" THEN 4 ELSE 3
HasN == Cmd \in {"list", "search"} /\ Len(argv) >= NPos
\* the command line is one main() accepts: a query for search, an integer n
ArgsOk ==
    /\ Cmd = "search" => Len(argv) >= 3
    /\ HasN => IntOk(argv[NPos])
N == IF HasN THEN IntVal(argv[NPos]) ELSE DefaultLimit
Issued(op) == \E i \in 1..Len(calls) : calls[i] = op

(* C1, as stated: when the fixed collection name is not in the store, each *)
(* of status, list, search and types prints the not-found message and      *)
(* exits with code 1.                                                      *)
C1_AllFourExitOne ==
    (Done /\ Cmd \in {"status", "list", "search", "types"} /\ Absent
          /\ ArgsOk /\ env.fail = "none")
    => (HasKind("not_found") /\ exitCode = 1)

(* C1, amended: when the fixed collection name is not in the store and the *)
(* client opens, list, search (given a query) and types, with an integer   *)
(* n, print the not-found message and its detail and exit with code 1      *)
(* after the single get_collection call; status never asks for the fixed   *)
(* name, prints no not-found message and, when its listing succeeds,       *)
(* exits 0.                                                                *)
C1_NotFoundExits ==
    (Done /\ Absent /\ ArgsOk /\ env.fail # "client")
    => /\ Cmd \in {"list", "search", "types"}
            => /\ out = NotFoundLines
               /\ exitCode = 1
               /\ raised = "none"
               /\ calls = <<"get_collection">>
       /\ Cmd = "status"
            => /\ ~HasKind("not_found")
               /\ env.fail = "none" => exitCode = 0

C1_Witness ==
    Done /\ Cmd = "types" /\ Absent /\ exitCode = 1 /\ HasKind("not_found")

(* C2, as stated: in every command, any error other than the failure to    *)
(* retrieve the named collection is caught, reported inline as "(error)"   *)
(* and does not stop the command: no exception ends a run, here even with  *)
(* every call on the store succeeding.                                     *)
C2_EveryErrorCaught == (Done /\ env.fail = "none") => raised = "none"

(* C2, amended: only an error of get_collection or count for one           *)
(* collection inside the loop of status is caught and reported inline as   *)
(* "(error)", and status goes on; every other error (opening the client,   *)
(* list_collections, count, peek, query or get on the named collection, a  *)
(* non-integer n) is not caught: it ends the process with exit status 1,   *)
(* prints no "(error)" line, and nothing is printed after it.              *)
C2_OnlyStatusLoopCatches ==
    Done =>
      /\ HasKind("col_error") => (Cmd = "status" /\ raised = "none" /\ exitCode = 0)
      /\ raised # "none" =>
            /\ exitCode = 1
            /\ ~HasKind("col_error")
            /\ raised = "ValueError" => (out = <<>> /\ ~opened /\ calls = <<>>)
            /\ raised = "PersistentClient" => (out = <<>> /\ calls = <<>>)
            /\ raised \in {"list_collections", "count", "peek", "query", "get"}
                  => calls[Len(calls)] = raised
            /\ ~HasKind("doc_head") /\ ~HasKind("match") /\ ~HasKind("by_type")
            /\ ~HasKind("collections")
      /\ (env.fail \notin {"none", "get_collection"} /\ Issued(env.fail))
            => raised = env.fail

C2_Witness ==
    Done /\ Cmd = "list" /\ raised = "peek" /\ exitCode = 1 /\ HasKind("list_title")

(* C3: no arguments print the usage text and exit 0; an unknown command    *)
(* prints an error and the usage text and exits 1; search without a query  *)
(* prints a usage message and exits 1 without opening the store; status,   *)
(* list, search with a query and types exit 0 when they run to their end.  *)
Completes == raised = "none" /\ ~HasKind("not_found") /\ ~HasKind("search_usage")
C3_ExitCodes ==
    Done =>
      /\ Len(argv) < 2 => (out = <<UsageDoc>> /\ exitCode = 0 /\ ~opened)
      /\ (Len(argv) >= 2 /\ Cmd \notin {"status", "list", "search", "types"})
            => /\ out = <<[kind |-> "unknown_command", cmd |-> Cmd], UsageDoc>>
               /\ exitCode = 1
               /\ ~opened
      /\ (Cmd = "search" /\ Len(argv) < 3)
            => /\ out = <<[kind |-> "search_usage"]>>
               /\ exitCode = 1
               /\ ~opened
               /\ calls = <<>>
      /\ (Cmd \in {"status", "list", "search", "types"} /\ Completes)
            => exitCode = 0
      /\ exitCode \in {0, 1}

C3_Witness ==
    Done /\ Cmd = "search" /\ Len(argv) < 3 /\ exitCode = 1 /\ ~opened

(* C4, as stated: for every requested n with n <= 0 or n > count, list     *)
(* displays exactly min(n, count) documents and does not raise.            *)
Displayed == Len(Lines("doc_head"))
C4_DisplaysMin ==
    (Done /\ Cmd = "list" /\ ArgsOk /\ Present /\ env.fail = "none"
          /\ (N <= 0 \/ N > Len(Stored)))
    => (raised = "none" /\ Displayed = Min(N, Len(Stored)))

(* C4, amended: for every integer n, list announces min(n, count) in its   *)
(* title line and does not raise when the client's calls succeed (only an  *)
(* exception of the client ends it early); for n >= 1, n > count included, *)
(* it displays exactly min(n, count) documents, numbered from 1; for       *)
(* n <= 0 it displays no                                                   *)
(* document of an empty collection, and of a non-empty one it displays     *)
(* what the store's peek returns for the non-positive limit n: between 0   *)
(* and count documents, never the negative min(n, count).                  *)
C4_ListCount ==
    (Done /\ Cmd = "list" /\ ArgsOk /\ Present)
    => /\ raised \in {"none", "PersistentClient", "count", "peek"}
       /\ raised = "none" <=> env.fail \notin {"client", "count", "peek"}
                               \/ (env.fail = "peek" /\ Stored = <<>>)
       /\ (raised = "none" /\ env.fail # "get_collection") =>
            /\ exitCode = 0
            /\ Lines("list_title")
                 = <<[kind |-> "list_title", limit |-> Min(N, Len(Stored)),
                      count |-> Len(Stored)]>>
            /\ N >= 1 => Displayed = Min(N, Len(Stored))
            /\ N <= 0 => Displayed \in 0..Len(Stored)
            /\ Stored = <<>> => (Displayed = 0 /\ HasKind("no_documents"))
            /\ \A i \in 1..Displayed :
                  /\ Lines("doc_head")[i].index = i
                  /\ Lines("doc_head")[i].id = i
            /\ Len(Lines("doc_content")) = Displayed

C4_Witness ==
    Done /\ Cmd = "list" /\ HasN /\ ArgsOk /\ N > Len(Stored) /\ Len(Stored) >= 2
         /\ raised = "none" /\ Displayed = Len(Stored)

(* C5, as stated: the preview of list (limit 80) and of search (limit 100) *)
(* is, for content longer than the limit, its first limit characters       *)
(* followed by "...", limit+3 characters in all, and for content at or     *)
(* under the limit the content unmodified.                                 *)
C5_PreviewVerbatim ==
    fnOut.fn \in {"list", "search"} =>
      LET doc == fnIn.doc
          limit == fnOut.limit
      IN  IF Len(doc) > limit
          THEN /\ Len(fnOut.preview) = limit + 3
               /\ fnOut.preview = SubSeq(doc, 1, limit) \o <<".", ".", ".">>
          ELSE fnOut.preview = doc

(* C5, amended: the preview is the content cut to its first limit          *)
(* characters (80 for list, 100 for search) with every newline in that     *)
(* part replaced by a space; content longer than the limit gets "..."      *)
(* appended, limit+3 characters in all; content at or under the limit      *)
(* keeps its length and gets no ellipsis.                                  *)
Spaced(c) == IF c = "\n" THEN " " ELSE c
C5_PreviewShape ==
    fnOut.fn \in {"list", "search"} =>
      LET doc == fnIn.doc
          limit == fnOut.limit
          pv == fnOut.preview
      IN  /\ fnOut.fn = "list" => limit = 80
          /\ fnOut.fn = "search" => limit = 100
          /\ Len(pv) = IF Len(doc) > limit THEN limit + 3 ELSE Len(doc)
          /\ \A i \in 1..Len(doc) : i <= limit => pv[i] = Spaced(doc[i])
          /\ Len(doc) > limit => \A i \in (limit + 1)..(limit + 3) : pv[i] = "."
          /\ (Len(doc) <= limit /\ \A i \in 1..Len(doc) : doc[i] # "\n") => pv = doc

C5_Witness ==
    /\ fnOut.fn = "list"
    /\ Len(fnIn.doc) = 81
    /\ fnIn.doc[3] = "\n"
    /\ Len(fnOut.preview) = 83
    /\ fnOut.preview[3] = " "

(* C6, as stated: the reported percentage for distance d is                *)
(* max(0, 1 - d/2) * 100, so that any smaller distance yields a higher     *)
(* reported percentage, distance 0 yields 100%, every distance >= 2 yields *)
(* 0%, and the percentage is never negative.  Percentages are in tenths;   *)
(* distances whose percentage is a decimal tie are left out.               *)
C6_StrictlyMonotonic ==
    (fnOut.fn = "similarity" /\ ~IsTie(fnIn.d1) /\ ~IsTie(fnIn.d2)) =>
      /\ fnOut.p1 > fnOut.p2
      /\ fnIn.d1 = 0 => fnOut.p1 = 1000
      /\ fnIn.d2 >= 2 * Scale => fnOut.p2 = 0
      /\ fnOut.p1 >= 0 /\ fnOut.p2 >= 0

(* C6, amended: the reported percentage for a distance d >= 0 is           *)
(* max(0, 1 - d/2) * 100 rounded to one decimal place, so that a smaller   *)
(* distance never yields a lower reported percentage, and yields a higher  *)
(* one when both distances are at most 2 and differ by 0.004 or more;      *)
(* distance 0 yields 100.0%, every distance >= 2 yields 0.0%, and the      *)
(* percentage is never negative.                                           *)
Abs(x) == IF x < 0 THEN 0 - x ELSE x
\* p tenths of a percent is a nearest tenth to max(0, 1 - d/2) * 100
Nearest(p, d) ==
    LET exact == IF d >= 2 * Scale THEN 0 ELSE (2 * Scale - d) * 1000
    IN  2 * Abs(p * 2 * Scale - exact) <= 2 * Scale
C6_Monotonic ==
    fnOut.fn = "similarity" =>
      /\ Nearest(fnOut.p1, fnIn.d1) /\ Nearest(fnOut.p2, fnIn.d2)
      /\ fnOut.p1 >= fnOut.p2
      /\ (fnIn.d2 <= 2 * Scale /\ 1000 * (fnIn.d2 - fnIn.d1) >= 4 * Scale)
            => fnOut.p1 > fnOut.p2
      /\ fnIn.d1 = 0 => fnOut.p1 = 1000
      /\ fnIn.d1 >= 2 * Scale => fnOut.p1 = 0
      /\ fnIn.d2 >= 2 * Scale => fnOut.p2 = 0
      /\ fnOut.p1 >= 0 /\ fnOut.p2 >= 0

C6_Witness ==
    /\ fnOut.fn = "similarity"
    /\ fnIn.d1 > 0 /\ fnIn.d2 < 2 * Scale
    /\ 1000 * (fnIn.d2 - fnIn.d1) >= 4 * Scale
    /\ fnOut.p1 > fnOut.p2 /\ fnOut.p2 > 0

(* C7: for every non-empty collection the per-doc_type counts that types   *)
(* prints sum to the document count it prints as Total, a document whose   *)
(* metadata lacks doc_type being counted under "unknown"; the session_id   *)
(* tally sums to the same total; doc_types prompt, response, prompt give   *)
(* prompt: 2, response: 1.                                                 *)
RECURSIVE SumCnt(_)
SumCnt(ls) == IF ls = <<>> THEN 0 ELSE Head(ls).cnt + SumCnt(Tail(ls))
\* the stored documents whose doc_type is t ("unknown": those without one)
OfType(t) ==
    {i \in 1..Len(Stored) :
        IF "doc_type" \in DOMAIN Stored[i].meta
        THEN Stored[i].meta.doc_type = t ELSE t = "unknown"}
StoredTypes == [i \in 1..Len(Stored) |-> MetaGet(Stored[i].meta, "doc_type", "none")]
C7_TalliesSumToTotal ==
    (Done /\ Cmd = "types" /\ HasKind("by_type")) =>
      LET total == Lines("by_type")[1].total
          tl == Lines("type_count")
      IN  /\ Stored # <<>>
          /\ total = Len(Stored)
          /\ SumCnt(tl) = total
          /\ CounterSum(tally.sessions) = total
          /\ \A i \in 1..Len(tl) : tl[i].cnt = Cardinality(OfType(tl[i].doc_type))
          /\ OfType("unknown") # {} => \E i \in 1..Len(tl) : tl[i].doc_type = "unknown"
          /\ \A i, j \in 1..Len(tl) : i < j => tl[i].cnt >= tl[j].cnt
          /\ StoredTypes = <<"prompt", "response", "prompt">>
                => tl = << [kind |-> "type_count", emoji |-> "memo",
                            doc_type |-> "prompt", cnt |-> 2],
                           [kind |-> "type_count", emoji |-> "speech",
                            doc_type |-> "response", cnt |-> 1] >>

C7_Witness ==
    /\ Done /\ Cmd = "types" /\ exitCode = 0
    /\ Len(Stored) = 3
    /\ Cardinality(OfType("prompt")) = 2
    /\ Cardinality(OfType("unknown")) = 1
    /\ \E i \in 1..Len(out) : out[i].kind = "type_count" /\ out[i].doc_type = "unknown"
                               /\ out[i].cnt = 1
    /\ CounterSum(tally.sessions) = 3

(* C8: status emits exactly one line for every collection the listing      *)
(* returns, in listing order: the document count when retrieval and count  *)
(* succeed, "(error)" when either fails for that collection; a failure on  *)
(* one collection never prevents the lines of the collections after it,    *)
(* and status still completes normally.                                    *)
ColLines == SelectSeq(out, LAMBDA l : l.kind \in {"col_count", "col_error"})
C8_OneLinePerCollection ==
    (Done /\ Cmd = "status" /\ env.fail = "none") =>
      /\ Len(ColLines) = Len(store)
      /\ \A i \in 1..Len(store) :
            ColLines[i] = IF env.faults[i] = "ok"
                          THEN [kind |-> "col_count", name |-> store[i].name,
                                count |-> Len(store[i].docs)]
                          ELSE [kind |-> "col_error", name |-> store[i].name]
      /\ Lines("collections") = <<[kind |-> "collections", n |-> Len(store)]>>
      /\ raised = "none"
      /\ exitCode = 0

C8_Witness ==
    /\ Done /\ Cmd = "status" /\ exitCode = 0
    /\ Len(store) = 2
    /\ env.faults[1] = "count"
    /\ ColLines[1].kind = "col_error"
    /\ ColLines[2].kind = "col_count"

(* C9: the tool is a pure reader: over any sequence of invocations of      *)
(* status, list, search and types, with any arguments, succeeding or       *)
(* failing, the store's collections and their documents and metadata stay  *)
(* as they were, and the only store operations issued are                  *)
(* list_collections, get_collection, count, peek, query and get.           *)
C9_PureReader ==
    [][/\ store' = store
       /\ \A i \in 1..Len(calls') : calls'[i] \in ReadOps]_vars

C9_Witness ==
    /\ Done /\ Cmd = "list" /\ Stored # <<>>
    /\ calls = <<"get_collection", "count", "peek">>
    /\ exitCode = 0

(* C10, as stated: search with any query and any n on an existing but      *)
(* empty collection prints "(no results)" and formats no result entry.     *)
(* The store is taken to be sound: it refuses only an n below 1.           *)
C10_EmptyAlwaysNoResults ==
    (Done /\ Cmd = "search" /\ ArgsOk /\ Present /\ Stored = <<>>
          /\ (env.fail = "none" \/ (env.fail = "query" /\ N <= 0)))
    => (HasKind("no_results") /\ ~HasKind("match"))

(* C10, amended: when the query call of search returns, which the store    *)
(* may refuse to do (its exception is not caught), search prints           *)
(* "(no results)" and formats no result entry if the query returned no     *)
(* ids, as it does on an existing but empty collection; if it returned     *)
(* k >= 1 ids, search prints exactly k ranked entries numbered 1..k and    *)
(* never "(no results)".                                                   *)
C10_NoResultsOrRanked ==
    (Done /\ Cmd = "search" /\ ArgsOk /\ Present
          /\ env.fail \in {"none", "query"}) =>
      /\ raised = "none" <=> env.fail = "none"
      /\ raised # "none" => (~HasKind("no_results") /\ ~HasKind("match"))
      /\ raised = "none" =>
           LET k == Len(result)
               m == Lines("match")
           IN  /\ Stored = <<>> => k = 0
               /\ k = 0 => (HasKind("no_results") /\ m = <<>>
                              /\ out[Len(out)].kind = "no_results")
               /\ k >= 1 => ~HasKind("no_results")
               /\ Len(m) = k
               /\ \A i \in 1..k : m[i].index = i
               /\ Lines("match_id") = [i \in 1..k |-> [kind |-> "match_id",
                                                      id |-> result[i].id]]
               /\ Len(Lines("match_content")) = k

C10_Witness ==
    /\ Done /\ Cmd = "search" /\ HasN /\ ArgsOk /\ N >= 1
    /\ Present /\ Stored = <<>>
    /\ raised = "none"
    /\ HasKind("no_results")

====
